---- MODULE Spec2Model ----
(***************************************************************************)
(* A model of the pushover_api library (Message::send, to_json,            *)
(* MessagePriority::from, send_simple_message) and of the pushover_cli     *)
(* front-end (main with the send-message subcommand).                      *)
(*                                                                         *)
(* An Option<T> is a sequence of length 0 (None) or 1 (Some(x)).  JSON     *)
(* text is represented by its syntax tree: a value is a record with a tag  *)
(* t in {"null","str","num","arr","obj"}; an object holds its members as a *)
(* sequence of <<key, value>> pairs in the order they are written; text    *)
(* that is not JSON at all has the tag "invalid".                          *)
(***************************************************************************)
EXTENDS Integers, Sequences, FiniteSets, TLC

VARIABLES
  entry,    \* the entry point this run exercises
  pc,       \* position of the run inside that entry point
  args,     \* Option: the command line handed to main
  text,     \* Option: the text handed to MessagePriority::from
  simple,   \* Option: the arguments of send_simple_message
  message,  \* Option: the Message that was constructed
  priority, \* Option: the MessagePriority returned by the conversion
  network,  \* the HTTP requests issued so far, oldest first
  outcome,  \* Option: what the transport did with the request
  result,   \* Option: the value Message::send returned
  stdout,   \* lines printed on standard output
  stderr,   \* messages printed on standard error
  exit      \* Option: the exit status of the process

vars == <<entry, pc, args, text, simple, message, priority, network, outcome,
          result, stdout, stderr, exit>>

----------------------------------------------------------------------------
(* Bounds of the model.                                                    *)

\* longest `errors` list a response carries
MaxErrors == 2
\* longest --timestamp text
MaxTimestampLen == 2

----------------------------------------------------------------------------
(* Option and sequence helpers.                                            *)

None == <<>>
Some(x) == <<x>>
IsSome(o) == Len(o) = 1
Unwrap(o) == o[1]
Opt(S) == {None} \cup {Some(x) : x \in S}

\* the sequences over S of length at most n
RECURSIVE SeqsUpTo(_, _)
SeqsUpTo(S, n) ==
  IF n = 0 THEN {<<>>}
  ELSE LET shorter == SeqsUpTo(S, n - 1)
       IN  shorter \cup {Append(s, x) : s \in {q \in shorter : Len(q) = n - 1}, x \in S}

\* [T]::join(sep) on strings: the first item, then the separator and the
\* item for every further one; the empty list joins to the empty string.
RECURSIVE JoinFrom(_, _, _, _)
JoinFrom(acc, items, sep, i) ==
  IF i > Len(items) THEN acc
  ELSE JoinFrom(acc \o sep \o items[i], items, sep, i + 1)

join(items, sep) ==
  IF items = <<>> THEN "" ELSE JoinFrom(items[1], items, sep, 2)

----------------------------------------------------------------------------
(* JSON values.                                                            *)

JNull == [t |-> "null"]
JStr(s) == [t |-> "str", v |-> s]
JNum(n) == [t |-> "num", v |-> n]
JArr(a) == [t |-> "arr", v |-> a]
JObj(members) == [t |-> "obj", v |-> members]
JInvalid == [t |-> "invalid"]

\* the members of an object by key
HasKey(obj, key) == \E i \in 1..Len(obj.v) : obj.v[i][1] = key
Duplicated(obj, key) == Cardinality({i \in 1..Len(obj.v) : obj.v[i][1] = key}) > 1
Member(obj, key) == obj.v[CHOOSE i \in 1..Len(obj.v) : obj.v[i][1] = key][2]

----------------------------------------------------------------------------
(* The API endpoint.                                                       *)

PUSHOVER_API == "https://api.pushover.net/1"

api_url(path) == PUSHOVER_API \o "/" \o path

----------------------------------------------------------------------------
(* MessagePriority.                                                        *)

MessagePriority == {"Lowest", "Low", "Normal", "High"}

\* #[repr(i8)]: the discriminant of each variant
Repr(p) ==
  CASE p = "Lowest" -> -2
    [] p = "Low"    -> -1
    [] p = "Normal" -> 0
    [] p = "High"   -> 1

\* Serialize_repr: the variant is written as its discriminant
SerializePriority(p) == JNum(Repr(p))

\* Deserialize_repr: a number that is a discriminant gives its variant,
\* anything else is an error (None)
DeserializePriority(j) ==
  IF j.t = "num" /\ \E p \in MessagePriority : Repr(p) = j.v
  THEN Some(CHOOSE p \in MessagePriority : Repr(p) = j.v)
  ELSE None

\* the outcome of a call: a returned value, or a panic
Returned(x) == [panicked |-> FALSE, value |-> Some(x)]
Panicked == [panicked |-> TRUE, value |-> None]

\* the conversion with two arms exchanged
MessagePriority_from_swapped(input) ==
  CASE input \in {"-2", "low"}    -> Returned("Lowest")
    [] input \in {"-1", "lowest"} -> Returned("Low")
    [] input \in {"0", "normal"}  -> Returned("Normal")
    [] input \in {"1", "high"}    -> Returned("High")
    [] OTHER                      -> Panicked

\* the conversion with a default arm instead of unreachable!()
MessagePriority_from_default(input) ==
  CASE input \in {"-2", "lowest"} -> Returned("Lowest")
    [] input \in {"-1", "low"}    -> Returned("Low")
    [] input \in {"1", "high"}    -> Returned("High")
    [] OTHER                      -> Returned("Normal")

\* impl From<&str> for MessagePriority
MessagePriority_from(input) ==
  CASE input \in {"-2", "lowest"} -> Returned("Lowest")
    [] input \in {"-1", "low"}    -> Returned("Low")
    [] input \in {"0", "normal"}  -> Returned("Normal")
    [] input \in {"1", "high"}    -> Returned("High")
    [] OTHER                      -> Panicked

----------------------------------------------------------------------------
(* Message and its wire form.                                              *)

\* #[derive(Default)]: empty strings and None
Message_default ==
  [token |-> "", user |-> "", message |-> "",
   device |-> None, title |-> None, url |-> None, url_title |-> None,
   priority |-> None, sound |-> None, timestamp |-> None]

OptionalFields ==
  {"device", "title", "url", "url_title", "priority", "sound", "timestamp"}

\* Serialize for Option<String>, Option<MessagePriority>, Option<i64>:
\* None is written as null, Some(x) as x.  (SerializeOptString_empty: a
\* variant that writes None as the empty string.)
SerializeOptString_empty(o) == IF IsSome(o) THEN JStr(Unwrap(o)) ELSE JStr("")
SerializeOptString(o) == IF IsSome(o) THEN JStr(Unwrap(o)) ELSE JNull
SerializeOptPriority(o) == IF IsSome(o) THEN SerializePriority(Unwrap(o)) ELSE JNull
SerializeOptInt(o) == IF IsSome(o) THEN JNum(Unwrap(o)) ELSE JNull

\* #[derive(Serialize)] on Message: every field, in declaration order
SerializeMessage(m) ==
  JObj(<< <<"token", JStr(m.token)>>,
          <<"user", JStr(m.user)>>,
          <<"message", JStr(m.message)>>,
          <<"device", SerializeOptString(m.device)>>,
          <<"title", SerializeOptString(m.title)>>,
          <<"url", SerializeOptString(m.url)>>,
          <<"url_title", SerializeOptString(m.url_title)>>,
          <<"priority", SerializeOptPriority(m.priority)>>,
          <<"sound", SerializeOptString(m.sound)>>,
          <<"timestamp", SerializeOptInt(m.timestamp)>> >>)

\* Message::to_json
to_json(m) == SerializeMessage(m)

\* Deserialize of one field: [ok, value].  A required String must be there
\* and be a string; an Option field that is missing or null is None.
FieldOk(x) == [ok |-> TRUE, value |-> x]
FieldErr == [ok |-> FALSE, value |-> None]

DeserializeString(obj, key) ==
  IF HasKey(obj, key) /\ ~Duplicated(obj, key) /\ Member(obj, key).t = "str"
  THEN FieldOk(Member(obj, key).v)
  ELSE FieldErr

DeserializeOptString(obj, key) ==
  IF ~HasKey(obj, key) THEN FieldOk(None)
  ELSE IF Duplicated(obj, key) THEN FieldErr
  ELSE IF Member(obj, key).t = "null" THEN FieldOk(None)
  ELSE IF Member(obj, key).t = "str" THEN FieldOk(Some(Member(obj, key).v))
  ELSE FieldErr

DeserializeOptInt(obj, key) ==
  IF ~HasKey(obj, key) THEN FieldOk(None)
  ELSE IF Duplicated(obj, key) THEN FieldErr
  ELSE IF Member(obj, key).t = "null" THEN FieldOk(None)
  ELSE IF Member(obj, key).t = "num" THEN FieldOk(Some(Member(obj, key).v))
  ELSE FieldErr

DeserializeOptPriority(obj, key) ==
  IF ~HasKey(obj, key) THEN FieldOk(None)
  ELSE IF Duplicated(obj, key) THEN FieldErr
  ELSE IF Member(obj, key).t = "null" THEN FieldOk(None)
  ELSE IF IsSome(DeserializePriority(Member(obj, key)))
       THEN FieldOk(DeserializePriority(Member(obj, key)))
  ELSE FieldErr

\* #[derive(Deserialize)] on Message: Some(message), or None on an error
DeserializeMessage(j) ==
  IF j.t # "obj" THEN None
  ELSE LET token == DeserializeString(j, "token")
           user == DeserializeString(j, "user")
           msg == DeserializeString(j, "message")
           device == DeserializeOptString(j, "device")
           title == DeserializeOptString(j, "title")
           url == DeserializeOptString(j, "url")
           url_title == DeserializeOptString(j, "url_title")
           prio == DeserializeOptPriority(j, "priority")
           sound == DeserializeOptString(j, "sound")
           timestamp == DeserializeOptInt(j, "timestamp")
       IN  IF /\ token.ok /\ user.ok /\ msg.ok /\ device.ok /\ title.ok
              /\ url.ok /\ url_title.ok /\ prio.ok /\ sound.ok /\ timestamp.ok
           THEN Some([token |-> token.value, user |-> user.value,
                      message |-> msg.value, device |-> device.value,
                      title |-> title.value, url |-> url.value,
                      url_title |-> url_title.value, priority |-> prio.value,
                      sound |-> sound.value, timestamp |-> timestamp.value])
           ELSE None

----------------------------------------------------------------------------
(* The response.                                                           *)

\* Deserialize for Vec<String>: an array whose items are all strings
IsStringArray(j) ==
  j.t = "arr" /\ \A i \in 1..Len(j.v) : j.v[i].t = "str"

\* #[serde(default)] pub errors: Vec<String>
DeserializeErrors(obj) ==
  IF ~HasKey(obj, "errors") THEN FieldOk(<<>>)
  ELSE IF Duplicated(obj, "errors") THEN FieldErr
  ELSE IF IsStringArray(Member(obj, "errors"))
       THEN FieldOk([i \in 1..Len(Member(obj, "errors").v) |->
                       Member(obj, "errors").v[i].v])
  ELSE FieldErr

DeserializeInt(obj, key) ==
  IF HasKey(obj, key) /\ ~Duplicated(obj, key) /\ Member(obj, key).t = "num"
  THEN FieldOk(Member(obj, key).v)
  ELSE FieldErr

\* serde_json::from_str::<RawMessageResponse>: Some(raw), or None on an error
RawMessageResponse(j) ==
  IF j.t # "obj" THEN None
  ELSE LET errors == DeserializeErrors(j)
           request == DeserializeString(j, "request")
           status == DeserializeInt(j, "status")
       IN  IF errors.ok /\ request.ok /\ status.ok
           THEN Some([errors |-> errors.value, request |-> request.value,
                      status |-> status.value])
           ELSE None

----------------------------------------------------------------------------
(* Message::send.                                                          *)

\* Result<MessageResponse>: anyhow::Error keeps the error it was made from,
\* `kind` is the type the caller can downcast it to
Ok(v) == [ok |-> TRUE, value |-> v]
Err(kind, msg) == [ok |-> FALSE, kind |-> kind, msg |-> msg]

\* REQWEST.post(url).header("content-type", ...).body(json)
Post(m) ==
  [method |-> "POST", url |-> api_url("messages.json"),
   content_type |-> "application/json", body |-> to_json(m)]

\* a variant that tries once more when no response came
send_requests_retry(m, o) ==
  IF o.kind = "connect_error" THEN <<Post(m), Post(m)>> ELSE <<Post(m)>>

\* the requests one call of send hands to the transport
send_requests(m, o) == <<Post(m)>>

\* a variant that also fails when `status` is not 1
Interpret_status(status, raw) ==
  IF raw.errors = <<>> /\ raw.status = 1
  THEN Ok([http_status |-> status, request |-> raw.request, status |-> raw.status])
  ELSE Err("anyhow::Error", join(raw.errors, ", "))

\* a variant that reports the first entry only
Interpret_first_error(status, raw) ==
  IF raw.errors = <<>>
  THEN Ok([http_status |-> status, request |-> raw.request, status |-> raw.status])
  ELSE Err("anyhow::Error", raw.errors[1])

\* the branch on raw.errors
Interpret(status, raw) ==
  IF raw.errors = <<>>
  THEN Ok([http_status |-> status, request |-> raw.request, status |-> raw.status])
  ELSE Err("anyhow::Error", join(raw.errors, ", "))

\* a variant that turns every error into a message
send_stringly(m, o) ==
  IF o.kind = "connect_error" THEN Err("anyhow::Error", "error sending request")
  ELSE IF o.kind = "body_error" THEN Err("anyhow::Error", "error decoding response body")
  ELSE IF ~IsSome(RawMessageResponse(o.text))
       THEN Err("anyhow::Error", "invalid response body")
  ELSE Interpret(o.status, Unwrap(RawMessageResponse(o.text)))

\* what send returns when the transport did o
send(m, o) ==
  IF o.kind = "connect_error" THEN Err("reqwest::Error", "error sending request")
  ELSE IF o.kind = "body_error" THEN Err("reqwest::Error", "error decoding response body")
  ELSE IF ~IsSome(RawMessageResponse(o.text))
       THEN Err("serde_json::Error", "invalid response body")
  ELSE Interpret(o.status, Unwrap(RawMessageResponse(o.text)))

\* a variant with token and user exchanged
simple_message_swapped(token, user, msg) ==
  [Message_default EXCEPT !.token = user, !.user = token, !.message = msg]

\* send_simple_message: the Message it constructs
simple_message(token, user, msg) ==
  [Message_default EXCEPT !.token = token, !.user = user, !.message = msg]

----------------------------------------------------------------------------
(* The command line.                                                       *)

\* str::parse::<i64>: an optional sign, then one or more decimal digits.
\* Texts are sequences of characters.  A text of at most MaxTimestampLen
\* characters is far from the 19 digits an overflow of i64 needs.
Digits == {"0", "1", "2", "3", "4", "5", "6", "7", "8", "9"}

DigitValue(c) ==
  CASE c = "0" -> 0 [] c = "1" -> 1 [] c = "2" -> 2 [] c = "3" -> 3
    [] c = "4" -> 4 [] c = "5" -> 5 [] c = "6" -> 6 [] c = "7" -> 7
    [] c = "8" -> 8 [] c = "9" -> 9

RECURSIVE Accumulate(_, _, _)
Accumulate(acc, chars, i) ==
  IF i > Len(chars) THEN acc
  ELSE Accumulate(acc * 10 + DigitValue(chars[i]), chars, i + 1)

parse_i64(chars) ==
  LET signed == chars # <<>> /\ chars[1] \in {"+", "-"}
      digits == IF signed THEN Tail(chars) ELSE chars
  IN  IF digits = <<>> \/ \E i \in 1..Len(digits) : digits[i] \notin Digits
      THEN None
      ELSE IF signed /\ chars[1] = "-"
           THEN Some(0 - Accumulate(0, digits, 1))
           ELSE Some(Accumulate(0, digits, 1))

\* .possible_values(&["lowest", "low", "normal", "high"])
PriorityValues == {"lowest", "low", "normal", "high"}

\* a variant without .requires("url")
Validate_no_requires(a) ==
  a.subcommand =>
    /\ IsSome(a.token) /\ IsSome(a.user) /\ IsSome(a.message)
    /\ IsSome(a.priority) => Unwrap(a.priority) \in PriorityValues

\* what get_matches enforces of the send-message definition: the required
\* arguments, --url-title requires --url, --priority takes one of its values
Validate(a) ==
  a.subcommand =>
    /\ IsSome(a.token) /\ IsSome(a.user) /\ IsSome(a.message)
    /\ IsSome(a.url_title) => IsSome(a.url)
    /\ IsSome(a.priority) => Unwrap(a.priority) \in PriorityValues

\* sub_cli.value_of("priority").map(MessagePriority::from)
ArgPriority(a) ==
  IF IsSome(a.priority) THEN MessagePriority_from(Unwrap(a.priority))
  ELSE Panicked

\* sub_cli.values_of("device").map(|values| ... .join(","))
ArgDevice(a) == IF a.device = <<>> THEN None ELSE Some(join(a.device, ","))

\* the Message main constructs from the matches
ArgMessage(a) ==
  [token |-> Unwrap(a.token), user |-> Unwrap(a.user),
   message |-> Unwrap(a.message),
   device |-> ArgDevice(a), title |-> a.title, url |-> a.url,
   url_title |-> a.url_title,
   priority |-> IF IsSome(a.priority) THEN ArgPriority(a).value ELSE None,
   sound |-> a.sound,
   timestamp |-> IF IsSome(a.timestamp) THEN parse_i64(Unwrap(a.timestamp)) ELSE None]

\* exit statuses: clap's Error::exit, and a panic of the main thread
EXIT_USAGE == 1
EXIT_PANIC == 101

Line(s) == [line |-> s, value |-> None]
LineWith(s, v) == [line |-> s, value |-> Some(v)]

----------------------------------------------------------------------------
(* The inputs.                                                             *)

ErrorTexts == {"invalid token", "invalid user"}
HttpStatuses == {200, 400}

ErrorsMember ==
  {<<>>} \cup
  {<< <<"errors", JArr([i \in 1..Len(e) |-> JStr(e[i])])>> >> :
     e \in SeqsUpTo(ErrorTexts, MaxErrors)}

\* bodies of the expected shape, and bodies that are not
Bodies ==
  {JObj(e \o << <<"request", JStr("req-1")>>, <<"status", JNum(st)>> >>) :
     e \in ErrorsMember, st \in {0, 1}}
  \cup {JInvalid, JArr(<<>>),
        JObj(<< <<"status", JNum(1)>> >>),
        JObj(<< <<"request", JStr("req-1")>> >>),
        JObj(<< <<"errors", JNull>>, <<"request", JStr("req-1")>>,
                <<"status", JNum(0)>> >>),
        JObj(<< <<"request", JNum(7)>>, <<"status", JNum(1)>> >>)}

Outcomes ==
  {[kind |-> "connect_error", status |-> 0, text |-> JInvalid]}
  \cup {[kind |-> "body_error", status |-> s, text |-> JInvalid] : s \in HttpStatuses}
  \cup {[kind |-> "response", status |-> s, text |-> b] :
          s \in HttpStatuses, b \in Bodies}

Messages ==
  [token : {"", "tok"}, user : {"usr"}, message : {"hi"},
   device : Opt({"a,b"}), title : Opt({"Title"}),
   url : Opt({"https://example.com"}), url_title : Opt({"Example"}),
   priority : Opt(MessagePriority), sound : Opt({"bike"}),
   timestamp : Opt({-1, 1600000000})]

SimpleArguments == [token : {"", "tok"}, user : {"", "usr"}, message : {"", "hi"}]

PriorityTexts ==
  {"-2", "-1", "0", "1", "lowest", "low", "normal", "high",
   "High", "LOWEST", "", "2", "emergency", " low"}

TimestampChars == {"-", "1", "x"}

\* the occurrences of --device, in the order given
DeviceLists == {<<>>, <<"a">>, <<"a", "b">>, <<"b", "a">>}

CommandLines ==
  {[subcommand |-> FALSE, verbose |-> v, token |-> None, user |-> None,
    message |-> None, device |-> <<>>, title |-> None, url |-> None,
    url_title |-> None, priority |-> None, sound |-> None,
    timestamp |-> None] : v \in BOOLEAN}
  \cup
  [subcommand : {TRUE}, verbose : BOOLEAN,
   token : Opt({"tok"}), user : {Some("usr")}, message : {Some("hi")},
   device : DeviceLists,
   title : Opt({"Title"}), url : Opt({"https://example.com"}),
   url_title : Opt({"Example"}),
   priority : Opt({"lowest", "low", "normal", "high", "High", "1"}),
   sound : Opt({"bike"}),
   timestamp : Opt(SeqsUpTo(TimestampChars, MaxTimestampLen))]

----------------------------------------------------------------------------
(* The state machine.                                                      *)

Init ==
  \/ /\ entry = "send" /\ pc = "built"
     /\ message \in {Some(m) : m \in Messages}
     /\ args = None /\ text = None /\ simple = None
     /\ priority = None /\ network = <<>> /\ outcome = None /\ result = None
     /\ stdout = <<>> /\ stderr = <<>> /\ exit = None
  \/ /\ entry = "send_simple_message" /\ pc = "start"
     /\ simple \in {Some(x) : x \in SimpleArguments}
     /\ args = None /\ text = None /\ message = None
     /\ priority = None /\ network = <<>> /\ outcome = None /\ result = None
     /\ stdout = <<>> /\ stderr = <<>> /\ exit = None
  \/ /\ entry = "from" /\ pc = "start"
     /\ text \in {Some(t) : t \in PriorityTexts}
     /\ args = None /\ simple = None /\ message = None
     /\ priority = None /\ network = <<>> /\ outcome = None /\ result = None
     /\ stdout = <<>> /\ stderr = <<>> /\ exit = None
  \/ /\ entry = "main" /\ pc = "start"
     /\ args \in {Some(a) : a \in CommandLines}
     /\ text = None /\ simple = None /\ message = None
     /\ priority = None /\ network = <<>> /\ outcome = None /\ result = None
     /\ stdout = <<>> /\ stderr = <<>> /\ exit = None

\* MessagePriority::from(text)
From ==
  /\ entry = "from" /\ pc = "start"
  /\ LET r == MessagePriority_from(Unwrap(text))
     IN  /\ priority' = r.value
         /\ pc' = IF r.panicked THEN "panicked" ELSE "returned"
  /\ UNCHANGED <<entry, args, text, simple, message, network, outcome, result,
                 stdout, stderr, exit>>

\* send_simple_message, up to its call of send
SimpleMessage ==
  /\ entry = "send_simple_message" /\ pc = "start"
  /\ LET x == Unwrap(simple)
     IN  message' = Some(simple_message(x.token, x.user, x.message))
  /\ pc' = "built"
  /\ UNCHANGED <<entry, args, text, simple, priority, network, outcome, result,
                 stdout, stderr, exit>>

\* Message::send, with whatever the transport does
Send ==
  /\ pc = "built"
  /\ \E o \in Outcomes :
       /\ network' = network \o send_requests(Unwrap(message), o)
       /\ outcome' = Some(o)
       /\ result' = Some(send(Unwrap(message), o))
  /\ pc' = "returned"
  /\ UNCHANGED <<entry, args, text, simple, message, priority, stdout, stderr, exit>>

\* main: App::new(...).get_matches()
GetMatches ==
  /\ entry = "main" /\ pc = "start"
  /\ IF Validate(Unwrap(args))
     THEN /\ pc' = "matched"
          /\ UNCHANGED <<stderr, exit>>
     ELSE /\ pc' = "exited"
          /\ stderr' = Append(stderr, Line("error: invalid arguments"))
          /\ exit' = Some(EXIT_USAGE)
  /\ UNCHANGED <<entry, args, text, simple, message, priority, network, outcome,
                 result, stdout>>

\* main: no send-message subcommand
NoSubcommand ==
  /\ entry = "main" /\ pc = "matched"
  /\ ~Unwrap(args).subcommand
  /\ stdout' = Append(stdout, Line("No subcommand used."))
  /\ exit' = Some(0)
  /\ pc' = "done"
  /\ UNCHANGED <<entry, args, text, simple, message, priority, network, outcome,
                 result, stderr>>

\* main: the values read from the matches and the Message made of them
BuildMessage ==
  /\ entry = "main" /\ pc = "matched"
  /\ Unwrap(args).subcommand
  /\ LET a == Unwrap(args)
     IN  IF IsSome(a.priority) /\ ArgPriority(a).panicked
         THEN /\ pc' = "panicked"
              /\ stderr' = Append(stderr, Line("internal error: entered unreachable code"))
              /\ exit' = Some(EXIT_PANIC)
              /\ UNCHANGED message
         ELSE IF IsSome(a.timestamp) /\ ~IsSome(parse_i64(Unwrap(a.timestamp)))
         THEN /\ pc' = "panicked"
              /\ stderr' = Append(stderr, Line("Failed to parse timestamp to i64"))
              /\ exit' = Some(EXIT_PANIC)
              /\ UNCHANGED message
         ELSE /\ pc' = "built"
              /\ message' = Some(ArgMessage(a))
              /\ UNCHANGED <<stderr, exit>>
  /\ UNCHANGED <<entry, args, text, simple, priority, network, outcome, result, stdout>>

\* main: .expect("Error sending message") on what send returned
Expect ==
  /\ entry = "main" /\ pc = "returned"
  /\ IF Unwrap(result).ok
     THEN /\ pc' = "sent"
          /\ UNCHANGED <<stderr, exit>>
     ELSE /\ pc' = "panicked"
          /\ stderr' = Append(stderr, LineWith("Error sending message", Unwrap(result)))
          /\ exit' = Some(EXIT_PANIC)
  /\ UNCHANGED <<entry, args, text, simple, message, priority, network, outcome,
                 result, stdout>>

\* a variant that prints without looking at --verbose
PrintResponse_always ==
  /\ entry = "main" /\ pc = "sent"
  /\ stdout' = Append(stdout, LineWith("MessageResponse", Unwrap(result).value))
  /\ exit' = Some(0)
  /\ pc' = "done"
  /\ UNCHANGED <<entry, args, text, simple, message, priority, network, outcome,
                 result, stderr>>

\* main: the verbose print, and the end of main
PrintResponse ==
  /\ entry = "main" /\ pc = "sent"
  /\ stdout' = IF Unwrap(args).verbose
               THEN Append(stdout, LineWith("MessageResponse", Unwrap(result).value))
               ELSE stdout
  /\ exit' = Some(0)
  /\ pc' = "done"
  /\ UNCHANGED <<entry, args, text, simple, message, priority, network, outcome,
                 result, stderr>>

Next ==
  \/ From
  \/ SimpleMessage
  \/ Send
  \/ GetMatches
  \/ NoSubcommand
  \/ BuildMessage
  \/ Expect
  \/ PrintResponse

Spec == Init /\ [][Next]_vars

----------------------------------------------------------------------------
(* What the claims speak of, read off the state.                           *)

Sent == result # None
TheMessage == Unwrap(message)
TheOutcome == Unwrap(outcome)
TheResult == Unwrap(result)
TheArgs == Unwrap(args)

\* a response body of the expected shape, and the `errors` it lists
WellShaped(b) ==
  /\ b.t = "obj"
  /\ HasKey(b, "request") /\ Member(b, "request").t = "str"
  /\ HasKey(b, "status") /\ Member(b, "status").t = "num"
  /\ HasKey(b, "errors") => IsStringArray(Member(b, "errors"))

BodyErrors(b) ==
  IF HasKey(b, "errors")
  THEN [i \in 1..Len(Member(b, "errors").v) |-> Member(b, "errors").v[i].v]
  ELSE <<>>

Decoded == Sent /\ TheOutcome.kind = "response" /\ WellShaped(TheOutcome.text)

\* the entries of a non-empty list, each after the first preceded by ", "
RECURSIVE CommaSpaceJoined(_)
CommaSpaceJoined(errs) ==
  IF Len(errs) = 1 THEN errs[1]
  ELSE errs[1] \o ", " \o CommaSpaceJoined(Tail(errs))

RecognizedTexts == {"-2", "-1", "0", "1", "lowest", "low", "normal", "high"}

MessageKeys ==
  <<"token", "user", "message", "device", "title", "url", "url_title",
    "priority", "sound", "timestamp">>

\* a --timestamp text that is no base-10 integer
NotAnInteger(chars) ==
  LET unsigned == IF chars # <<>> /\ chars[1] \in {"+", "-"} THEN Tail(chars) ELSE chars
  IN  unsigned = <<>> \/ \E i \in 1..Len(unsigned) : unsigned[i] \notin Digits

FailsValidation(a) ==
  /\ a.subcommand
  /\ \/ IsSome(a.timestamp) /\ NotAnInteger(Unwrap(a.timestamp))
     \/ IsSome(a.url_title) /\ ~IsSome(a.url)

----------------------------------------------------------------------------
(* The claims.                                                             *)

\* C1: for every decoded response, send succeeds exactly when the body's
\* `errors` is empty or absent, whatever the HTTP status and the value of
\* `status`; the value returned on success carries the transport's HTTP
\* status and the body's `request` and `status`.
C1_SuccessIffNoErrors ==
  Decoded =>
    /\ TheResult.ok <=> BodyErrors(TheOutcome.text) = <<>>
    /\ TheResult.ok =>
         TheResult.value =
           [http_status |-> TheOutcome.status,
            request |-> Member(TheOutcome.text, "request").v,
            status |-> Member(TheOutcome.text, "status").v]

\* a success on HTTP 400 with status 0 and no `errors` member at all
C1_Witness ==
  /\ Decoded /\ TheResult.ok
  /\ TheOutcome.status = 400
  /\ TheResult.value.status = 0
  /\ ~HasKey(TheOutcome.text, "errors")

\* C2 as stated: the posted body holds the key of an optional field only
\* when the field is present, and no null.
C2_AbsentFieldsOmitted ==
  \A i \in 1..Len(network) :
    \A k \in OptionalFields :
      /\ HasKey(network[i].body, k) <=> IsSome(TheMessage[k])
      /\ HasKey(network[i].body, k) => Member(network[i].body, k).t # "null"

\* C2 as amended: the posted body holds the key of every field, once and in
\* declaration order; an optional field is null exactly when it is absent;
\* deserializing the body gives the message back, every present field
\* unchanged and every absent field absent.
C2_AbsentFieldsNull ==
  \A i \in 1..Len(network) :
    LET body == network[i].body
    IN  /\ body.t = "obj"
        /\ [j \in 1..Len(body.v) |-> body.v[j][1]] = MessageKeys
        /\ \A k \in OptionalFields :
             Member(body, k).t = "null" <=> ~IsSome(TheMessage[k])
        /\ DeserializeMessage(body) = Some(TheMessage)

\* a request was posted with a present title and priority and an absent device
C2_Witness ==
  /\ Len(network) = 1
  /\ IsSome(TheMessage.title) /\ TheMessage.priority = Some("Lowest")
  /\ IsSome(TheMessage.timestamp)
  /\ ~IsSome(TheMessage.device) /\ ~IsSome(TheMessage.url)

\* C3: a decoded response with a non-empty `errors` makes send fail with
\* the entries joined by ", " in their order; one entry is the message as is.
C3_ErrorsJoined ==
  (Decoded /\ BodyErrors(TheOutcome.text) # <<>>) =>
    /\ ~TheResult.ok
    /\ TheResult.msg = CommaSpaceJoined(BodyErrors(TheOutcome.text))
    /\ BodyErrors(TheOutcome.text) = <<"invalid token">> =>
         TheResult.msg = "invalid token"
    /\ BodyErrors(TheOutcome.text) = <<"invalid token", "invalid user">> =>
         TheResult.msg = "invalid token, invalid user"

\* two entries, reported in the order of the response
C3_Witness ==
  /\ Decoded
  /\ BodyErrors(TheOutcome.text) = <<"invalid user", "invalid token">>
  /\ TheResult.msg = "invalid user, invalid token"

\* C4: a call of send issues exactly one POST to the endpoint, whatever the
\* outcome, and none before; the request carries the message as it is, an
\* empty token included.
C4_ExactlyOnePost ==
  /\ ~Sent => network = <<>>
  /\ Sent =>
       /\ Len(network) = 1
       /\ network[1].method = "POST"
       /\ network[1].url = "https://api.pushover.net/1/messages.json"
       /\ network[1].content_type = "application/json"
       /\ Member(network[1].body, "token") = JStr(TheMessage.token)
       /\ Member(network[1].body, "user") = JStr(TheMessage.user)
       /\ Member(network[1].body, "message") = JStr(TheMessage.message)

\* a request with an empty token went out once and the transport failed
C4_Witness ==
  /\ Sent /\ TheOutcome.kind = "connect_error"
  /\ TheMessage.token = ""
  /\ Len(network) = 1

\* C5: a failing send reports the kind of its cause: a transport failure, a
\* body that does not decode (whatever the HTTP status), or a rejection by
\* the server; the three kinds differ.
C5_ErrorKinds ==
  (Sent /\ ~TheResult.ok) =>
    /\ TheOutcome.kind \in {"connect_error", "body_error"} =>
         TheResult.kind = "reqwest::Error"
    /\ (TheOutcome.kind = "response" /\ ~WellShaped(TheOutcome.text)) =>
         TheResult.kind = "serde_json::Error"
    /\ Decoded =>
         /\ TheResult.kind = "anyhow::Error"
         /\ BodyErrors(TheOutcome.text) # <<>>

\* a body that is not JSON, on HTTP 200
C5_Witness ==
  /\ Sent /\ ~TheResult.ok
  /\ TheOutcome.kind = "response" /\ TheOutcome.status = 200
  /\ TheOutcome.text = JInvalid
  /\ TheResult.kind = "serde_json::Error"

\* C6: each of the eight recognized texts converts to its level; the numeric
\* and the textual alias of a level give the same priority, and the levels
\* are written as the distinct integers -2, -1, 0, 1.
C6_RecognizedTexts ==
  (entry = "from" /\ pc # "start" /\ Unwrap(text) \in RecognizedTexts) =>
    /\ pc = "returned"
    /\ Unwrap(text) \in {"-2", "lowest"} =>
         priority = Some("Lowest") /\ SerializePriority(Unwrap(priority)) = JNum(-2)
    /\ Unwrap(text) \in {"-1", "low"} =>
         priority = Some("Low") /\ SerializePriority(Unwrap(priority)) = JNum(-1)
    /\ Unwrap(text) \in {"0", "normal"} =>
         priority = Some("Normal") /\ SerializePriority(Unwrap(priority)) = JNum(0)
    /\ Unwrap(text) \in {"1", "high"} =>
         priority = Some("High") /\ SerializePriority(Unwrap(priority)) = JNum(1)

\* the numeric alias of Low was converted
C6_Witness ==
  entry = "from" /\ pc = "returned" /\ text = Some("-1") /\ priority = Some("Low")

\* C7: a text that is none of the eight never converts to a priority: the
\* conversion panics, and no Message is built or sent with such a text.
C7_UnrecognizedTextPanics ==
  /\ (entry = "from" /\ pc # "start" /\ Unwrap(text) \notin RecognizedTexts) =>
       pc = "panicked" /\ priority = None /\ message = None /\ network = <<>>
  /\ (entry = "main" /\ IsSome(TheArgs.priority)
        /\ Unwrap(TheArgs.priority) \notin RecognizedTexts) =>
       message = None /\ network = <<>>

\* the conversion of "High" panicked
C7_Witness ==
  entry = "from" /\ pc = "panicked" /\ text = Some("High")

\* C8: a send-message command line with an unparsable --timestamp, or with
\* --url-title and no --url, never gets to send: no request is issued at
\* any point of the run, and the run ends with an error.
C8_ValidationPrecedesSend ==
  (entry = "main" /\ FailsValidation(TheArgs)) =>
    /\ network = <<>> /\ ~Sent /\ message = None
    /\ \/ pc \in {"start", "matched"}
       \/ /\ pc \in {"exited", "panicked"}
          /\ IsSome(exit) /\ Unwrap(exit) # 0
          /\ stderr # <<>> /\ stdout = <<>>

\* a run with --url and --url-title ended on the --timestamp text "1x"
C8_Witness ==
  /\ entry = "main" /\ pc = "panicked"
  /\ TheArgs.timestamp = Some(<<"1", "x">>)
  /\ IsSome(TheArgs.url_title)
  /\ network = <<>>

\* C9: a run of main that got to send prints the response exactly when send
\* succeeded and --verbose is set; a failed send ends the run at once with a
\* message on standard error, a non-zero exit status, nothing on standard
\* output and no second request; a run without the subcommand prints the
\* notice, issues no request and exits with status 0.
C9_Reporting ==
  entry = "main" =>
    /\ Sent =>
         /\ Len(network) = 1
         /\ stdout # <<>> => (TheResult.ok /\ TheArgs.verbose /\ pc = "done")
         /\ pc = "done" =>
              /\ TheResult.ok /\ exit = Some(0)
              /\ stdout = IF TheArgs.verbose
                          THEN <<LineWith("MessageResponse", TheResult.value)>>
                          ELSE <<>>
         /\ ~TheResult.ok =>
              /\ pc \in {"returned", "panicked"}
              /\ stdout = <<>>
              /\ pc = "panicked" =>
                   /\ IsSome(exit) /\ Unwrap(exit) # 0
                   /\ stderr = <<LineWith("Error sending message", TheResult)>>
    /\ ~TheArgs.subcommand =>
         /\ network = <<>> /\ ~Sent
         /\ pc \in {"start", "matched", "done"}
         /\ pc = "done" =>
              /\ stdout = <<Line("No subcommand used.")>>
              /\ exit = Some(0) /\ stderr = <<>>
         /\ pc # "done" => stdout = <<>> /\ exit = None

\* a verbose run printed the response of a successful send
C9_Witness ==
  /\ entry = "main" /\ pc = "done" /\ Sent
  /\ TheArgs.verbose /\ TheResult.ok
  /\ stdout = <<LineWith("MessageResponse", TheResult.value)>>

\* C10: send_simple_message sends the request whose token, user and message
\* are the given ones and whose optional fields are all absent, and returns
\* what send returns for that request built by hand.
C10_SimpleMessage ==
  (entry = "send_simple_message" /\ pc # "start") =>
    LET byHand ==
          [token |-> Unwrap(simple).token, user |-> Unwrap(simple).user,
           message |-> Unwrap(simple).message,
           device |-> None, title |-> None, url |-> None, url_title |-> None,
           priority |-> None, sound |-> None, timestamp |-> None]
    IN  /\ message = Some(byHand)
        /\ Sent =>
             /\ network = <<Post(byHand)>>
             /\ Member(network[1].body, "token") = JStr(Unwrap(simple).token)
             /\ Member(network[1].body, "user") = JStr(Unwrap(simple).user)
             /\ Member(network[1].body, "message") = JStr(Unwrap(simple).message)
             /\ \A k \in OptionalFields : Member(network[1].body, k) = JNull
             /\ result = Some(send(byHand, TheOutcome))

\* send_simple_message("tok", "usr", "hi") was sent and accepted
C10_Witness ==
  /\ entry = "send_simple_message" /\ Sent /\ TheResult.ok
  /\ simple = Some([token |-> "tok", user |-> "usr", message |-> "hi"])

====
